---- MODULE Spec2Model ----
(***************************************************************************)
(* Churn Analysis API (backend/main.py): the module-level model/schema     *)
(* globals, the persisted model file, and the HTTP handlers that read and  *)
(* write them.                                                              *)
(*                                                                          *)
(* Python's None is the empty tuple and a present value x is <<x>>, so     *)
(* that an optional value compares with None without a type error.         *)
(* The statistical library (fit, predict, metrics, joblib) is a black box: *)
(* whether a call into it raises is an input of the handler, and a fitted  *)
(* pipeline's score is a fixed function of the columns it was built on.    *)
(***************************************************************************)
EXTENDS Integers, Sequences, FiniteSets, TLC

None == <<>>
Some(x) == <<x>>
Val(o) == o[1]

Range(s) == {s[i] : i \in 1..Len(s)}

RECURSIVE SelectSeqBy(_, _)
\* [x for x in s if x in keep], order kept
SelectSeqBy(s, keep) ==
    IF s = <<>> THEN <<>>
    ELSE IF Head(s) \in keep THEN <<Head(s)>> \o SelectSeqBy(Tail(s), keep)
         ELSE SelectSeqBy(Tail(s), keep)

(***************************************************************************)
(* Bounds of the model.                                                    *)
(***************************************************************************)
\* columns of a training frame in the schema-detection specification
MaxCols == 3
\* /predict-batch requests suspended at `await file.read()` at one time
MaxInflight == 1

(***************************************************************************)
(* Training frames: what pd.read_csv returns, column by column.  A column  *)
(* is its name, the kind of its dtype and nunique(dropna=True).            *)
(***************************************************************************)
\* the cardinality threshold of detect_column_types
LowCardinality == 10

Kinds == {"int", "float", "bool", "object"}
NUniques == {2, LowCardinality, LowCardinality + 1}

Col(n, k, u) == [name |-> n, kind |-> k, nuniq |-> u]
Names(cols) == [i \in 1..Len(cols) |-> cols[i].name]

\* pd.api.types.is_numeric_dtype: integers, floats and booleans are numeric
is_numeric_dtype(c) == c.kind \in {"int", "float", "bool"}
\* pd.api.types.is_integer_dtype: booleans are not integers
is_integer_dtype(c) == c.kind = "int"

\* a faulty variant of IsCategorical: the threshold compared with < instead of <=
IsCategoricalStrict(c) ==
    IF is_numeric_dtype(c)
    THEN is_integer_dtype(c) /\ c.nuniq < LowCardinality
    ELSE TRUE

\* the branch of detect_column_types that appends col to `categorical`
IsCategorical(c) ==
    IF is_numeric_dtype(c)
    THEN is_integer_dtype(c) /\ c.nuniq <= LowCardinality
    ELSE TRUE

RECURSIVE FilterCols(_, _)
FilterCols(cols, cat) ==
    IF cols = <<>> THEN <<>>
    ELSE IF IsCategorical(Head(cols)) = cat
         THEN <<Head(cols).name>> \o FilterCols(Tail(cols), cat)
         ELSE FilterCols(Tail(cols), cat)

\* detect_column_types(df): (numerical, categorical), each in column order
detect_column_types(cols) ==
    [numerical |-> FilterCols(cols, FALSE), categorical |-> FilterCols(cols, TRUE)]

\* the conventional target names, in the order the loop tries them
Candidates == <<"Churn", "Exited", "churn", "target">>

RECURSIVE FirstCandidate(_, _)
FirstCandidate(cands, names) ==
    IF cands = <<>> THEN None
    ELSE IF Head(cands) \in names THEN Some(Head(cands))
         ELSE FirstCandidate(Tail(cands), names)

\* Python truthiness of Optional[str]: None and "" are falsy
Truthy(t) == t # None /\ Val(t) # ""

\* a faulty variant of detect_target_column: an unknown explicit target falls back
\* to the conventional names instead of raising
detect_target_column_fallback(cols, target_param) ==
    IF Truthy(target_param) /\ Val(target_param) \in Range(Names(cols))
    THEN target_param
    ELSE FirstCandidate(Candidates, Range(Names(cols)))

\* detect_target_column(df, target_param): Some(name), or None for ValueError
detect_target_column(cols, target_param) ==
    IF Truthy(target_param)
    THEN IF Val(target_param) \in Range(Names(cols)) THEN target_param ELSE None
    ELSE FirstCandidate(Candidates, Range(Names(cols)))

\* c.lower().endswith('id'), for the column names the model uses
EndsWithId(n) == n \in {"CustomerId", "RowID", "Paid"}

RECURSIVE FeatureCols(_, _)
\* [c for c in df.columns if c != target_column and not c.lower().endswith('id')]
FeatureCols(cols, tc) ==
    IF cols = <<>> THEN <<>>
    ELSE IF Head(cols).name # tc /\ ~EndsWithId(Head(cols).name)
         THEN <<Head(cols)>> \o FeatureCols(Tail(cols), tc)
         ELSE FeatureCols(Tail(cols), tc)

\* sorted([str(v) for v in df[c].dropna().unique()]): the i-th smallest string
SortedValues(c) == [i \in 1..c.nuniq |-> i]

RECURSIVE CategoricalValues(_)
\* {c: sorted values for c in categorical_columns}, as (name, values) pairs in
\* insertion order
CategoricalValues(cols) ==
    IF cols = <<>> THEN <<>>
    ELSE IF IsCategorical(Head(cols))
         THEN <<<<Head(cols).name, SortedValues(Head(cols))>>>> \o CategoricalValues(Tail(cols))
         ELSE CategoricalValues(Tail(cols))


(***************************************************************************)
(* The fitted object.  create_pipeline records the column lists of its     *)
(* transformers; fit records the frame columns and the target it saw.      *)
(***************************************************************************)
\* create_pipeline(categorical_cols, numerical_cols): None for the ValueError
\* "No features found for preprocessing"
create_pipeline(categorical_cols, numerical_cols) ==
    IF categorical_cols = <<>> /\ numerical_cols = <<>>
    THEN None
    ELSE Some([cat |-> categorical_cols, num |-> numerical_cols,
               fitted |-> FALSE, X |-> <<>>, y |-> ""])

\* pipeline.fit(X_train, y_train)
Fit(p, X, y) == [p EXCEPT !.fitted = TRUE, !.X = X, !.y = y]

(***************************************************************************)
(* State.                                                                   *)
(***************************************************************************)
VARIABLES
    pipeline,             \* global pipeline
    feature_columns,      \* global feature_columns
    target_column,        \* global target_column
    categorical_columns,  \* global categorical_columns
    numerical_columns,    \* global numerical_columns
    categorical_values,   \* global categorical_values
    disk,                 \* model/model.joblib: None, or the dumped dict
    data,                 \* ../data/Churn_Modelling.csv: None, or its frame
    inflight,             \* predict_batch coroutines suspended at the await
    req,                  \* the request (or start) handled last
    resp,                 \* its response (or log line)
    call                  \* the frame that request handed to the pipeline

vars == <<pipeline, feature_columns, target_column, categorical_columns,
          numerical_columns, categorical_values, disk, data, inflight,
          req, resp, call>>

\* the six globals, as one record
Globals == [pipeline |-> pipeline, feature_columns |-> feature_columns,
            target_column |-> target_column,
            categorical_columns |-> categorical_columns,
            numerical_columns |-> numerical_columns,
            categorical_values |-> categorical_values]

\* the module-level assignments `pipeline = None`, ...
NoGlobals == [pipeline |-> None, feature_columns |-> None, target_column |-> None,
              categorical_columns |-> None, numerical_columns |-> None,
              categorical_values |-> None]

SetGlobals(g) ==
    /\ pipeline' = g.pipeline
    /\ feature_columns' = g.feature_columns
    /\ target_column' = g.target_column
    /\ categorical_columns' = g.categorical_columns
    /\ numerical_columns' = g.numerical_columns
    /\ categorical_values' = g.categorical_values

\* a request and a response, always of the same shape
Request(op, arg) == [op |-> op, arg |-> arg]
Response(status, kind, cols, body) ==
    [status |-> status, kind |-> kind, cols |-> cols, body |-> body]

\* a file joblib.dump wrote in full, and one it left truncated
Dumped(g) == Some([intact |-> TRUE, content |-> g])
Truncated == Some([intact |-> FALSE, content |-> NoGlobals])

\* joblib.load(model_path) returns the dict: the file is whole and the read
\* does not raise
LoadOk(d, fault) == d # None /\ Val(d).intact /\ fault = "none"

(***************************************************************************)
(* startup_event, after the interpreter has run the module-level           *)
(* assignments of a fresh process.                                         *)
(***************************************************************************)
\* a faulty variant of StartupGlobals: categorical_values is not read back
StartupGlobalsNoValues(d, fault) ==
    IF LoadOk(d, fault)
    THEN [Val(d).content EXCEPT !.categorical_values = None]
    ELSE NoGlobals

StartupGlobals(d, fault) ==
    IF LoadOk(d, fault) THEN Val(d).content ELSE NoGlobals

StartupLog(d, fault) ==
    IF d = None THEN "not_found"
    ELSE IF LoadOk(d, fault) THEN "loaded" ELSE "load_error"

Startup(fault) ==
    /\ SetGlobals(StartupGlobals(disk, fault))
    /\ inflight' = 0
    /\ req' = Request("startup", None)
    /\ resp' = Response(0, StartupLog(disk, fault), {}, None)
    /\ call' = None
    /\ UNCHANGED <<disk, data>>

(***************************************************************************)
(* POST /train                                                              *)
(***************************************************************************)
\* where the black-box calls of train_model may raise
TrainFaults == {"none", "read_csv", "split", "fit", "metrics", "makedirs", "dump"}

\* the HTTPException train_model raises; for a 500 the detail carries the
\* message of the exception caught, here the call that raised it
TrainError(g, d, status, kind) ==
    [globals |-> g, disk |-> d, resp |-> Response(status, kind, {}, None)]

\* train_model(target): the globals, the model file and the response it
\* leaves, the statements of the try block in order
TrainResult(g, d, df, target, fault) ==
    IF df = None THEN TrainError(g, d, 404, "no_data")
    ELSE IF fault = "read_csv" THEN TrainError(g, d, 500, fault)
    ELSE
    LET cols == Val(df)
        tc == detect_target_column(cols, target)
        feats == FeatureCols(cols, Val(tc))
        types == detect_column_types(feats)
        \* after line 179: the schema globals are assigned, the pipeline is not
        g1 == [g EXCEPT !.target_column = tc,
                        !.feature_columns = Some(Names(feats)),
                        !.numerical_columns = Some(types.numerical),
                        !.categorical_columns = Some(types.categorical),
                        !.categorical_values = Some(CategoricalValues(feats))]
        unfit == create_pipeline(types.categorical, types.numerical)
        \* after line 183: the global pipeline is the new, unfitted one
        g3 == [g1 EXCEPT !.pipeline = unfit]
        \* after line 184: the same object, fitted in place
        g4 == [g1 EXCEPT !.pipeline = Some(Fit(Val(unfit), Names(feats), Val(tc)))]
    IN  IF tc = None THEN TrainError(g, d, 500, "target")
        ELSE IF fault = "split" THEN TrainError(g1, d, 500, fault)
        ELSE IF unfit = None THEN TrainError(g1, d, 500, "no_features")
        ELSE IF fault = "fit" THEN TrainError(g3, d, 500, fault)
        ELSE IF fault \in {"metrics", "makedirs"} THEN TrainError(g4, d, 500, fault)
        ELSE IF fault = "dump" THEN TrainError(g4, Truncated, 500, fault)
        ELSE [globals |-> g4, disk |-> Dumped(g4),
              resp |-> Response(200, "trained", {},
                                [target_column |-> g4.target_column,
                                 feature_columns |-> g4.feature_columns,
                                 categorical_columns |-> g4.categorical_columns,
                                 numerical_columns |-> g4.numerical_columns])]

Train(target, fault) ==
    LET r == TrainResult(Globals, disk, data, target, fault)
    IN  /\ SetGlobals(r.globals)
        /\ disk' = r.disk
        /\ req' = Request("train", target)
        /\ resp' = r.resp
        /\ call' = None
        /\ UNCHANGED <<data, inflight>>


(***************************************************************************)
(* GET /, /health, /model-info, /schema                                     *)
(***************************************************************************)
HealthBody(g) == [model_loaded |-> g.pipeline # None]

ModelInfoBody(g) ==
    IF g.pipeline = None THEN None
    ELSE Some([target_column |-> g.target_column,
               feature_columns |-> g.feature_columns,
               categorical_columns |-> g.categorical_columns,
               numerical_columns |-> g.numerical_columns])

RECURSIVE DictGet(_, _)
\* (categorical_values or {}).get(col, [])
DictGet(pairs, key) ==
    IF pairs = <<>> THEN <<>>
    ELSE IF Head(pairs)[1] = key THEN Head(pairs)[2]
         ELSE DictGet(Tail(pairs), key)

\* one entry of `fields`
SchemaField(g, col) ==
    IF g.categorical_columns # None /\ col \in Range(Val(g.categorical_columns))
    THEN [name |-> col, type |-> "categorical",
          values |-> IF g.categorical_values = None THEN <<>>
                     ELSE DictGet(Val(g.categorical_values), col)]
    ELSE [name |-> col, type |-> "number", values |-> <<>>]

SchemaBody(g) ==
    [target |-> g.target_column,
     fields |-> [i \in 1..Len(Val(g.feature_columns)) |->
                    SchemaField(g, Val(g.feature_columns)[i])]]

\* a faulty variant of SchemaGlobals: the lazy load assigns the pipeline too
SchemaGlobalsWithPipeline(g, d, fault) ==
    IF g.feature_columns = None /\ LoadOk(d, fault) THEN Val(d).content ELSE g

\* the globals get_schema leaves: the five schema globals are read from the
\* model file when feature_columns is None and the file loads
SchemaGlobals(g, d, fault) ==
    IF g.feature_columns = None /\ LoadOk(d, fault)
    THEN [Val(d).content EXCEPT !.pipeline = g.pipeline]
    ELSE g

SchemaResponse(g, d, fault) ==
    LET g1 == SchemaGlobals(g, d, fault)
    IN  IF g.feature_columns = None /\ d = None
        THEN Response(400, "no_schema", {}, None)
        ELSE IF g.feature_columns = None /\ ~LoadOk(d, fault)
        THEN Response(500, "exception", {}, None)
        ELSE Response(200, "schema", {}, SchemaBody(g1))

Root ==
    /\ req' = Request("root", None)
    /\ resp' = Response(200, "root", {}, None)
    /\ call' = None
    /\ UNCHANGED <<pipeline, feature_columns, target_column, categorical_columns,
                   numerical_columns, categorical_values, disk, data, inflight>>

Health ==
    /\ req' = Request("health", None)
    /\ resp' = Response(200, "health", {}, HealthBody(Globals))
    /\ call' = None
    /\ UNCHANGED <<pipeline, feature_columns, target_column, categorical_columns,
                   numerical_columns, categorical_values, disk, data, inflight>>

ModelInfo ==
    /\ req' = Request("model-info", None)
    /\ resp' = Response(200, "model-info", {}, ModelInfoBody(Globals))
    /\ call' = None
    /\ UNCHANGED <<pipeline, feature_columns, target_column, categorical_columns,
                   numerical_columns, categorical_values, disk, data, inflight>>

Schema(fault) ==
    /\ SetGlobals(SchemaGlobals(Globals, disk, fault))
    /\ req' = Request("schema", None)
    /\ resp' = SchemaResponse(Globals, disk, fault)
    /\ call' = None
    /\ UNCHANGED <<disk, data, inflight>>

(***************************************************************************)
(* Cell values.  A value of a frame is written with its dtype: i1 is the   *)
(* integer 1, f1 the float 1.0, s1 the string "1", sx the string "x", nan  *)
(* a missing value, null a Python None.                                    *)
(***************************************************************************)
NonNumericStrings == {"sx", "sA"}

\* pd.to_numeric of one cell of an object column; None when it raises
ToNumericCell(v) ==
    CASE v \in NonNumericStrings -> None
      [] v = "s1" -> Some("i1")
      [] v = "s2" -> Some("i2")
      [] v = "null" -> Some("nan")
      [] OTHER -> Some(v)

\* the number a numeric cell holds
NumOf(v) ==
    CASE v \in {"i1", "f1"} -> 1
      [] v \in {"i2", "f2"} -> 2
      [] OTHER -> 0

\* the one-hot category of a cell; 0 for a category the encoder ignores
CatCode(v) ==
    CASE v \in {"i1", "f1"} -> 1
      [] v \in {"i2", "f2"} -> 2
      [] v = "sA" -> 3
      [] OTHER -> 0

IsNumber(v) == v \in {"i1", "i2", "f1", "f2"}

\* a frame: its column names in order, and its rows as functions of the name
Frame(cols, rows) == [cols |-> cols, rows |-> rows]

\* a faulty variant of SelectColumns: the frame is passed on with all its columns
SelectAllColumns(df, columns) == df

\* df[columns]
SelectColumns(df, columns) ==
    Frame(columns, [i \in 1..Len(df.rows) |-> [c \in Range(columns) |-> df.rows[i][c]]])

\* set(feature_columns) - set(df.columns)
MissingColumns(fc, df) == Range(fc) \ Range(df.cols)

\* pd.to_numeric(df[col], errors='raise') does not raise
ColumnCoercible(df, col) ==
    \A i \in 1..Len(df.rows) : ToNumericCell(df.rows[i][col]) # None

\* df[col] = pd.to_numeric(df[col], errors='raise')
CoerceColumn(df, col) ==
    [df EXCEPT !.rows = [i \in 1..Len(df.rows) |->
        [df.rows[i] EXCEPT ![col] = Val(ToNumericCell(df.rows[i][col]))]]]

\* a faulty variant of CoerceNumerical: the numerical columns are not validated
CoerceNumericalSkip(numcols, df) == [ok |-> TRUE, col |-> "", df |-> df]

RECURSIVE CoerceNumerical(_, _)
\* the loop over numerical_columns: the frame with every numerical column
\* coerced, or the first column whose coercion raises
CoerceNumerical(numcols, df) ==
    IF numcols = <<>> THEN [ok |-> TRUE, col |-> "", df |-> df]
    ELSE IF Head(numcols) \notin Range(df.cols) THEN CoerceNumerical(Tail(numcols), df)
    ELSE IF ~ColumnCoercible(df, Head(numcols))
         THEN [ok |-> FALSE, col |-> Head(numcols), df |-> df]
    ELSE CoerceNumerical(Tail(numcols), CoerceColumn(df, Head(numcols)))

(***************************************************************************)
(* pipeline.predict / pipeline.predict_proba                                *)
(***************************************************************************)
RECURSIVE WeightedNum(_, _, _)
WeightedNum(cols, row, i) ==
    IF cols = <<>> THEN 0
    ELSE i * NumOf(row[Head(cols)]) + WeightedNum(Tail(cols), row, i + 1)

RECURSIVE WeightedCat(_, _, _)
WeightedCat(cols, row, i) ==
    IF cols = <<>> THEN 0
    ELSE i * CatCode(row[Head(cols)]) + WeightedCat(Tail(cols), row, i + 1)

TargetCode(y) ==
    CASE y = "Churn" -> 1 [] y = "Exited" -> 2 [] y = "churn" -> 3
      [] y = "target" -> 4 [] OTHER -> 5

\* predict_proba(df)[i, 1], in percent
Proba(p, row) ==
    (37 * WeightedNum(p.num, row, 1) + 23 * WeightedCat(p.cat, row, 1)
        + 11 * TargetCode(p.y)) % 101

\* predict(df)[i]
Pred(p, row) == IF Proba(p, row) > 50 THEN 1 ELSE 0

\* the library raises: the pipeline is not fitted, a column it selects is not
\* in the frame, or a scaled column holds a string or a missing value
PredictRaises(p, df) ==
    \/ ~p.fitted
    \/ ~(Range(p.cat) \cup Range(p.num) \subseteq Range(df.cols))
    \/ \E i \in 1..Len(df.rows) : \E c \in Range(p.num) : ~IsNumber(df.rows[i][c])

(***************************************************************************)
(* POST /predict                                                            *)
(***************************************************************************)
\* pd.DataFrame([input_data]); the body is a function of its keys
JsonFrame(input_data, keys) == Frame(keys, <<input_data>>)

Outcome(response, called) == [resp |-> response, call |-> called]

\* a faulty variant of predict_single_try: missing columns are filled with a
\* missing value instead of rejected
predict_single_fill(g, input_data, keys) ==
    IF g.feature_columns = None
    THEN Outcome(Response(500, "exception", {}, None), None)
    ELSE
    LET fc == Val(g.feature_columns)
        filled == [c \in Range(fc) \cup DOMAIN input_data |->
                      IF c \in DOMAIN input_data THEN input_data[c] ELSE "nan"]
        df_input == SelectColumns(JsonFrame(filled, fc), fc)
        co == CoerceNumerical(IF g.numerical_columns = None THEN <<>>
                              ELSE Val(g.numerical_columns), df_input)
        p == Val(g.pipeline)
    IN  IF ~co.ok
        THEN Outcome(Response(400, "not_numeric", {co.col}, None), None)
        ELSE IF PredictRaises(p, co.df)
        THEN Outcome(Response(500, "exception", {}, None), Some(co.df))
        ELSE Outcome(Response(200, "prediction", {},
                              [prediction |-> Pred(p, co.df.rows[1]),
                               probability |-> Proba(p, co.df.rows[1])]),
                     Some(co.df))

\* the try block of predict_single: the response, and the frame handed to
\* the pipeline (None when it is not called).  set(None) raises TypeError.
predict_single_try(g, input_data, keys) ==
    IF g.feature_columns = None
    THEN Outcome(Response(500, "exception", {}, None), None)
    ELSE
    LET df0 == JsonFrame(input_data, keys)
        fc == Val(g.feature_columns)
        missing == MissingColumns(fc, df0)
        df_input == SelectColumns(df0, fc)
        co == CoerceNumerical(IF g.numerical_columns = None THEN <<>>
                              ELSE Val(g.numerical_columns), df_input)
        p == Val(g.pipeline)
    IN  IF missing # {}
        THEN Outcome(Response(400, "missing_columns", missing, None), None)
        ELSE IF ~co.ok
        THEN Outcome(Response(400, "not_numeric", {co.col}, None), None)
        ELSE IF PredictRaises(p, co.df)
        THEN Outcome(Response(500, "exception", {}, None), Some(co.df))
        ELSE Outcome(Response(200, "prediction", {},
                              [prediction |-> Pred(p, co.df.rows[1]),
                               probability |-> Proba(p, co.df.rows[1])]),
                     Some(co.df))

\* a faulty variant of predict_single: the guard tests the schema, not the pipeline
predict_single_schema_guard(g, input_data, keys) ==
    IF g.feature_columns = None
    THEN Outcome(Response(400, "not_trained", {}, None), None)
    ELSE IF g.pipeline = None
    THEN Outcome(Response(500, "exception", {}, None), None)
    ELSE predict_single_try(g, input_data, keys)

\* predict_single(input_data)
predict_single(g, input_data, keys) ==
    IF g.pipeline = None
    THEN Outcome(Response(400, "not_trained", {}, None), None)
    ELSE predict_single_try(g, input_data, keys)

(***************************************************************************)
(* POST /predict-batch.  The uploaded file is text: a header and rows of   *)
(* cells.  pd.read_csv gives every column one dtype, df.to_csv writes the  *)
(* values of that dtype back.                                               *)
(***************************************************************************)
IntText == {"1", "2"}

\* the dtype pd.read_csv infers for a column from its cells
InferKind(cells) ==
    IF \A i \in 1..Len(cells) : cells[i] \in IntText THEN "int"
    ELSE IF \A i \in 1..Len(cells) : cells[i] \in IntText \cup {""} THEN "float"
    ELSE "object"

\* the value pd.read_csv gives a cell of a column of that dtype
ParseCell(kind, t) ==
    CASE t = "" -> "nan"
      [] kind = "int" /\ t = "1" -> "i1"
      [] kind = "int" /\ t = "2" -> "i2"
      [] kind = "float" /\ t = "1" -> "f1"
      [] kind = "float" /\ t = "2" -> "f2"
      [] kind = "object" /\ t = "1" -> "s1"
      [] kind = "object" /\ t = "2" -> "s2"
      [] kind = "object" /\ t = "A" -> "sA"
      [] OTHER -> "sx"

\* the text df.to_csv writes for a value
RenderCell(v) ==
    CASE v = "nan" -> ""
      [] v \in {"i1", "s1"} -> "1"
      [] v \in {"i2", "s2"} -> "2"
      [] v = "f1" -> "1.0"
      [] v = "f2" -> "2.0"
      [] v = "sA" -> "A"
      [] OTHER -> "x"

CsvFile(header, rows) == [kind |-> "csv", header |-> header, rows |-> rows]
\* a body that is not UTF-8, and a body with no columns to parse
BinaryFile == [kind |-> "binary", header |-> <<>>, rows |-> <<>>]
EmptyFile == [kind |-> "empty", header |-> <<>>, rows |-> <<>>]

ColumnCells(file, c) == [i \in 1..Len(file.rows) |-> file.rows[i][c]]

\* pd.read_csv(io.StringIO(content.decode('utf-8')))
ReadCsv(file) ==
    Frame(file.header,
          [i \in 1..Len(file.rows) |->
              [c \in Range(file.header) |->
                  ParseCell(InferKind(ColumnCells(file, c)), file.rows[i][c])]])

\* df.to_csv(index=False) of the parsed frame, before the two result columns
WriteCsv(df) ==
    [header |-> df.cols,
     rows |-> [i \in 1..Len(df.rows) |->
                  [c \in Range(df.cols) |-> RenderCell(df.rows[i][c])]]]

\* df_out[name] = values: an existing column is overwritten in place, a new
\* one is appended
SetColumn(out, name, values) ==
    [header |-> IF name \in Range(out.header) THEN out.header
                ELSE Append(out.header, name),
     rows |-> [i \in 1..Len(out.rows) |->
                  [c \in Range(out.header) \cup {name} |->
                      IF c = name THEN values[i] ELSE out.rows[i][c]]]]

\* the part of predict_batch before the await: the response it raises, or
\* None when the coroutine goes on to read the file
predict_batch_begin(g, filename_is_csv) ==
    IF g.pipeline = None THEN Some(Response(400, "not_trained", {}, None))
    ELSE IF ~filename_is_csv THEN Some(Response(400, "not_csv", {}, None))
    ELSE None

\* the part of predict_batch after the await, on the globals as they are
\* when the coroutine resumes
predict_batch_resume(g, file) ==
    IF file.kind # "csv" \/ g.feature_columns = None
    THEN Outcome(Response(500, "exception", {}, None), None)
    ELSE
    LET df == ReadCsv(file)
        fc == Val(g.feature_columns)
        missing == MissingColumns(fc, df)
        df_features == SelectColumns(df, fc)
        co == CoerceNumerical(IF g.numerical_columns = None THEN <<>>
                              ELSE Val(g.numerical_columns), df_features)
        p == Val(g.pipeline)
        preds == [i \in 1..Len(df.rows) |-> ToString(Pred(p, co.df.rows[i]))]
        probas == [i \in 1..Len(df.rows) |-> ToString(Proba(p, co.df.rows[i]))]
    IN  IF missing # {}
        THEN Outcome(Response(400, "missing_columns", missing, None), None)
        ELSE IF ~co.ok
        THEN Outcome(Response(400, "not_numeric", {co.col}, None), None)
        ELSE IF PredictRaises(p, co.df)
        THEN Outcome(Response(500, "exception", {}, None), Some(co.df))
        ELSE Outcome(Response(200, "predictions", {},
                              SetColumn(SetColumn(WriteCsv(df), "Prediction", preds),
                                        "Probability", probas)),
                     Some(co.df))

PredictSingle(input) ==
    LET o == predict_single(Globals, input.vals, input.keys)
    IN  /\ req' = Request("predict", input)
        /\ resp' = o.resp
        /\ call' = o.call
        /\ UNCHANGED <<pipeline, feature_columns, target_column, categorical_columns,
                       numerical_columns, categorical_values, disk, data, inflight>>

\* a /predict-batch request arrives and runs to its response or to the await
BatchBegin(filename_is_csv) ==
    LET r == predict_batch_begin(Globals, filename_is_csv)
    IN  /\ r = None => inflight < MaxInflight
        /\ inflight' = IF r = None THEN inflight + 1 ELSE inflight
        /\ req' = Request("predict-batch", filename_is_csv)
        /\ resp' = IF r = None THEN Response(0, "pending", {}, None) ELSE Val(r)
        /\ call' = None
        /\ UNCHANGED <<pipeline, feature_columns, target_column, categorical_columns,
                       numerical_columns, categorical_values, disk, data>>

\* a suspended predict_batch gets the bytes of its upload and runs to the end
BatchResume(file) ==
    LET o == predict_batch_resume(Globals, file)
    IN  /\ inflight > 0
        /\ inflight' = inflight - 1
        /\ req' = Request("predict-batch-file", file)
        /\ resp' = o.resp
        /\ call' = o.call
        /\ UNCHANGED <<pipeline, feature_columns, target_column, categorical_columns,
                       numerical_columns, categorical_values, disk, data>>


(***************************************************************************)
(* Inputs.                                                                  *)
(***************************************************************************)
\* the training file of the service specification: absent, or a frame with
\* an id column, a numerical and a categorical feature and the target
FrameA == <<Col("CustomerId", "int", LowCardinality + 1),
            Col("Age", "int", LowCardinality + 1),
            Col("Gender", "object", 2),
            Col("Exited", "int", 2)>>
DataFiles == {None, Some(FrameA)}

\* the ?target= parameter
Targets == {None, Some("Gender"), Some("Nope")}

\* joblib.load raises or not
LoadFaults == {"none", "load"}

\* the columns a client may send: the frame's, but its id columns
RECURSIVE KeyPool(_)
KeyPool(cols) ==
    IF cols = <<>> THEN <<>>
    ELSE IF EndsWithId(Head(cols).name) THEN KeyPool(Tail(cols))
         ELSE <<Head(cols)>> \o KeyPool(Tail(cols))

Pool == IF data = None THEN <<>> ELSE KeyPool(Val(data))
PoolNames == Names(Pool)
PoolCol(n) == CHOOSE c \in Range(Pool) : c.name = n

\* the JSON values sent for a key
JsonValuesFor(n) ==
    IF n \notin Range(PoolNames) THEN {"sx"}
    ELSE IF ~IsCategorical(PoolCol(n)) THEN {"i1", "s1", "sx", "null"}
    ELSE IF PoolCol(n).kind = "object" THEN {"sA"}
    ELSE {"i1"}

JsonKeyOrder == PoolNames \o <<"Note">>

RECURSIVE JsonBodies(_)
\* every body over the keys: one value of JsonValuesFor for each
JsonBodies(keys) ==
    IF keys = <<>> THEN {<<>>}
    ELSE {(Head(keys) :> v) @@ f : v \in JsonValuesFor(Head(keys)), f \in JsonBodies(Tail(keys))}

JsonInputs ==
    UNION {
        {[keys |-> SelectSeqBy(JsonKeyOrder, S), vals |-> f] :
            f \in JsonBodies(SelectSeqBy(JsonKeyOrder, S))}
        : S \in SUBSET Range(JsonKeyOrder)}

Reverse(s) == [i \in 1..Len(s) |-> s[Len(s) + 1 - i]]

\* the headers of the uploaded files: the pool's columns in order, any of
\* them left out, the whole pool reversed, and one column more
Headers ==
    LET base == {SelectSeqBy(PoolNames, S) : S \in SUBSET Range(PoolNames)}
                    \cup {Reverse(PoolNames)}
    IN  {h \in base \cup {Append(b, "Note") : b \in base}
                    \cup {<<"Prediction">> \o b : b \in base} : h # <<>>}

\* the two cells of a column of an uploaded file
CellsFor(n) ==
    IF n = "Note" THEN {<<"x", "">>, <<"1", "">>}
    ELSE IF n = "Prediction" THEN {<<"1", "2">>}
    ELSE IF ~IsCategorical(PoolCol(n)) THEN {<<"1", "2">>, <<"1", "">>, <<"1", "x">>}
    ELSE IF PoolCol(n).kind = "object" THEN {<<"A", "A">>}
    ELSE {<<"1", "2">>}

RECURSIVE FileColumns(_)
\* every choice of cells for the columns of a header
FileColumns(header) ==
    IF header = <<>> THEN {<<>>}
    ELSE {(Head(header) :> cells) @@ k :
             cells \in CellsFor(Head(header)), k \in FileColumns(Tail(header))}

Files ==
    {BinaryFile, EmptyFile} \cup
    UNION {
        {CsvFile(h, [i \in 1..2 |-> [c \in Range(h) |-> k[c][i]]]) : k \in FileColumns(h)}
        : h \in Headers}

(***************************************************************************)
(* The service: a process that has started with no model file, then any    *)
(* requests, one at a time on the event loop, and restarts.                *)
(***************************************************************************)
Init ==
    /\ pipeline = None
    /\ feature_columns = None
    /\ target_column = None
    /\ categorical_columns = None
    /\ numerical_columns = None
    /\ categorical_values = None
    /\ disk = None
    /\ data \in DataFiles
    /\ inflight = 0
    /\ req = Request("startup", None)
    /\ resp = Response(0, "not_found", {}, None)
    /\ call = None

Restart == \E fault \in LoadFaults : Startup(fault)
GetSchema == \E fault \in LoadFaults : Schema(fault)
PostTrain == \E target \in Targets, fault \in TrainFaults : Train(target, fault)
PostPredict == \E input \in JsonInputs : PredictSingle(input)
PostPredictBatch == \E csv \in BOOLEAN : BatchBegin(csv)
ReadUpload == \E file \in Files : BatchResume(file)

Next ==
    \/ Restart
    \/ Root
    \/ Health
    \/ ModelInfo
    \/ GetSchema
    \/ PostTrain
    \/ PostPredict
    \/ PostPredictBatch
    \/ ReadUpload

Spec == Init /\ [][Next]_vars


(***************************************************************************)
(* Schema detection: /train on every small training frame.                 *)
(***************************************************************************)
SchemaNames == {"Churn", "Exited", "churn", "target", "RowID"}
FeatureNames == <<"Age", "Balance", "Tenure", "Salary">>

\* a column of the frames that vary the names
NamedCol(n) == Col(n, "int", IF n = "RowID" THEN LowCardinality + 1 ELSE 2)

RECURSIVE NameFrames(_)
\* the frames of n distinct columns of SchemaNames
NameFrames(n) ==
    IF n = 0 THEN {<<>>}
    ELSE {Append(f, NamedCol(c)) : c \in SchemaNames, f \in NameFrames(n - 1)}

RECURSIVE TypeFrames(_)
\* the frames of the first n FeatureNames, of every dtype and cardinality
TypeFrames(n) ==
    IF n = 0 THEN {<<>>}
    ELSE {Append(f, Col(FeatureNames[n], k, u)) :
             k \in Kinds, u \in {LowCardinality, LowCardinality + 1}, f \in TypeFrames(n - 1)}

Distinct(f) == \A i, j \in 1..Len(f) : f[i].name = f[j].name => i = j

SchemaFrames ==
    {f \in UNION {NameFrames(n) : n \in 1..MaxCols} : Distinct(f)}
    \cup {<<Col("Exited", "int", 2)>> \o f : f \in TypeFrames(MaxCols - 1)}

SchemaTargets ==
    {None, Some(""), Some("Nope"), Some("Age")} \cup {Some(n) : n \in SchemaNames}

InitSchema ==
    /\ pipeline = None
    /\ feature_columns = None
    /\ target_column = None
    /\ categorical_columns = None
    /\ numerical_columns = None
    /\ categorical_values = None
    /\ disk = None
    /\ data \in {Some(f) : f \in SchemaFrames}
    /\ inflight = 0
    /\ req = Request("startup", None)
    /\ resp = Response(0, "not_found", {}, None)
    /\ call = None

TrainSchema == \E target \in SchemaTargets, fault \in {"none", "metrics"} : Train(target, fault)

SpecSchema == InitSchema /\ [][TrainSchema]_vars


(***************************************************************************)
(* What the last request sent, read off req.                               *)
(***************************************************************************)
IsPredict == req.op = "predict"
IsUpload == IF req.op = "predict-batch-file" THEN req.arg.kind = "csv" ELSE FALSE
Loaded == pipeline # None /\ feature_columns # None

\* the columns of the request
SentColumns ==
    IF IsPredict THEN Range(req.arg.keys)
    ELSE IF IsUpload THEN Range(req.arg.header) ELSE {}

\* the request holds, in column c, a value that is no number
SentNonNumber(c) ==
    IF IsPredict THEN req.arg.vals[c] \in {"sx", "sA"}
    ELSE \E i \in 1..Len(req.arg.rows) : req.arg.rows[i][c] \notin {"1", "2", ""}

SameAnswer(r1, r2) ==
    /\ r1.status = r2.status
    /\ r1.kind = r2.kind
    /\ r1.cols = r2.cols

(***************************************************************************)
(* C1.  A /predict or /predict-batch request that arrives while the global *)
(* pipeline is None is answered 400 "Model not trained yet" without the    *)
(* pipeline being called, whatever the request holds, and a prediction is  *)
(* only returned while a pipeline is loaded.                                *)
(***************************************************************************)
C1_NotTrainedRejected ==
    [][ /\ (req'.op \in {"predict", "predict-batch"} /\ pipeline = None)
            => (resp'.status = 400 /\ resp'.kind = "not_trained" /\ call' = None)
        /\ resp'.kind \in {"prediction", "predictions"} => pipeline' # None
        /\ call' # None => pipeline # None ]_vars

\* a /predict with every feature column of the schema in memory was refused
\* for want of a pipeline
C1_Witness ==
    /\ IsPredict /\ pipeline = None /\ feature_columns # None
    /\ Range(Val(feature_columns)) \subseteq SentColumns
    /\ resp.kind = "not_trained"

(***************************************************************************)
(* C2.  As claimed: with a model loaded, a /predict record or              *)
(* /predict-batch CSV that lacks feature columns is not rejected because   *)
(* of the missing columns.                                                  *)
(***************************************************************************)
C2_MissingTolerated ==
    ((IsPredict \/ IsUpload) /\ Loaded /\ ~(Range(Val(feature_columns)) \subseteq SentColumns))
        => resp.kind # "missing_columns"

(***************************************************************************)
(* C2, amended.  With a model loaded, a /predict record or /predict-batch  *)
(* CSV that lacks feature columns is answered 400, the detail listing      *)
(* exactly the missing columns, and the pipeline is not called.            *)
(***************************************************************************)
C2_MissingRejected ==
    ((IsPredict \/ IsUpload) /\ Loaded /\ ~(Range(Val(feature_columns)) \subseteq SentColumns))
        => /\ resp.status = 400
           /\ resp.kind = "missing_columns"
           /\ resp.cols = Range(Val(feature_columns)) \ SentColumns
           /\ call = None

C2_Witness ==
    /\ IsUpload /\ Loaded
    /\ Range(Val(feature_columns)) \ SentColumns = {"Gender"}
    /\ "Note" \in SentColumns
    /\ resp.kind = "missing_columns"

(***************************************************************************)
(* C3.  Extra columns.                                                      *)
(***************************************************************************)
\* the last request holds every feature column
SentAllFeatures ==
    (IsPredict \/ IsUpload) /\ Loaded /\ Range(Val(feature_columns)) \subseteq SentColumns

Extras == SentColumns \ Range(Val(feature_columns))

\* the request without its extra columns
StrippedBody == [c \in Range(Val(feature_columns)) |-> req.arg.vals[c]]
StrippedFile ==
    CsvFile(SelectSeqBy(req.arg.header, Range(Val(feature_columns))),
            [i \in 1..Len(req.arg.rows) |->
                [c \in Range(Val(feature_columns)) |-> req.arg.rows[i][c]]])
StrippedOutcome ==
    IF IsPredict
    THEN predict_single(Globals, StrippedBody,
                        SelectSeqBy(req.arg.keys, Range(Val(feature_columns))))
    ELSE predict_batch_resume(Globals, StrippedFile)

\* the request is answered as it is without the extra columns, and the
\* pipeline gets exactly the feature columns, in the order of feature_columns
ExtrasIgnored ==
    SentAllFeatures =>
        /\ SameAnswer(resp, StrippedOutcome.resp)
        /\ resp.kind # "missing_columns"
        /\ call = StrippedOutcome.call
        /\ call # None => Val(call).cols = Val(feature_columns)
        /\ (IsPredict /\ resp.status = 200) => resp.body = StrippedOutcome.resp.body
        /\ (IsUpload /\ resp.status = 200) =>
              \A i \in 1..Len(req.arg.rows) :
                 /\ resp.body.rows[i]["Prediction"]
                        = StrippedOutcome.resp.body.rows[i]["Prediction"]
                 /\ resp.body.rows[i]["Probability"]
                        = StrippedOutcome.resp.body.rows[i]["Probability"]

\* every extra column of the upload is in the output with the cells it came with
ExtrasCarriedUnchanged ==
    (SentAllFeatures /\ IsUpload /\ resp.status = 200) =>
        \A c \in Extras : \A i \in 1..Len(req.arg.rows) :
            /\ c \in Range(resp.body.header)
            /\ resp.body.rows[i][c] = req.arg.rows[i][c]

\* the text of an integer written as a float
AsFloatText(t) == CASE t = "1" -> "1.0" [] t = "2" -> "2.0" [] OTHER -> t

\* a column of integers and blanks
IntegersWithBlanks(c) ==
    /\ \A i \in 1..Len(req.arg.rows) : req.arg.rows[i][c] \in {"1", "2", ""}
    /\ \E i \in 1..Len(req.arg.rows) : req.arg.rows[i][c] = ""

\* every extra column of the upload is in the output, in its place, with the
\* cells it came with, but that the integers of a column with blanks are
\* written as floats and that a column named Prediction or Probability holds
\* the results
ExtrasCarriedAsParsed ==
    (SentAllFeatures /\ IsUpload /\ resp.status = 200) =>
        /\ SelectSeqBy(resp.body.header, Range(req.arg.header)) = req.arg.header
        /\ \A c \in Extras \ {"Prediction", "Probability"} :
              \A i \in 1..Len(req.arg.rows) :
                 resp.body.rows[i][c] =
                    IF IntegersWithBlanks(c) THEN AsFloatText(req.arg.rows[i][c])
                    ELSE req.arg.rows[i][c]
        /\ \A i \in 1..Len(req.arg.rows) :
              resp.body.rows[i]["Prediction"] = ToString(Pred(Val(pipeline), Val(call).rows[i]))

(***************************************************************************)
(* C3, as claimed.  With a model loaded, a request with every feature      *)
(* column and any extra columns is answered as without the extras, the     *)
(* pipeline is called on exactly the feature columns in their order, and   *)
(* /predict-batch carries the extra columns unchanged into its output.     *)
(***************************************************************************)
C3_ExtrasUnchanged == ExtrasIgnored /\ ExtrasCarriedUnchanged

(***************************************************************************)
(* C3, amended.  As claimed, but /predict-batch carries an extra column as *)
(* pandas parsed it (the integers of a column with blank cells come back   *)
(* as floats) and overwrites an extra column named Prediction or           *)
(* Probability with the results.                                            *)
(***************************************************************************)
C3_ExtrasAsParsed == ExtrasIgnored /\ ExtrasCarriedAsParsed

C3_Witness ==
    /\ SentAllFeatures /\ IsUpload /\ resp.status = 200
    /\ "Prediction" \in Extras
    /\ Val(call).cols # SelectSeqBy(req.arg.header, Range(Val(feature_columns)))

C3_WitnessSingle ==
    /\ SentAllFeatures /\ IsPredict /\ resp.status = 200 /\ Extras # {}


(***************************************************************************)
(* C4, as claimed.  Every handler but /train leaves the six globals        *)
(* unchanged (startup_event is no handler).                                 *)
(***************************************************************************)
C4_OnlyTrainWrites ==
    [][ req'.op \notin {"train", "startup"} => Globals' = Globals ]_vars

(***************************************************************************)
(* C4, amended.  /, /health, /predict, /predict-batch and /model-info      *)
(* leave the six globals unchanged; /schema never writes pipeline, and     *)
(* writes the five schema globals only when feature_columns is None and    *)
(* the model file loads: then they are the ones of the file.               *)
(***************************************************************************)
C4_TrainAndSchemaWrite ==
    [][ /\ req'.op \notin {"train", "startup", "schema"} => Globals' = Globals
        /\ req'.op = "schema" =>
              /\ pipeline' = pipeline
              /\ feature_columns # None => Globals' = Globals
              /\ resp'.status # 200 => Globals' = Globals
              /\ (feature_columns = None /\ resp'.status = 200) =>
                    /\ disk # None
                    /\ Globals' = [Val(disk).content EXCEPT !.pipeline = None]
                    /\ feature_columns' # None ]_vars

\* /schema has answered from the model file in a process whose start-up load
\* failed: the schema is in memory, the pipeline is not
C4_Witness ==
    /\ req.op = "schema" /\ resp.status = 200
    /\ pipeline = None /\ feature_columns # None
    /\ disk # None
    /\ Val(disk).content.pipeline # None
    /\ Globals = [Val(disk).content EXCEPT !.pipeline = None]

(***************************************************************************)
(* C5.  detect_column_types, as train_model applies it to the feature      *)
(* columns of the training frame: the two lists are disjoint, cover the    *)
(* feature columns and keep their order, and a column is categorical iff   *)
(* its dtype is not numeric or it is an integer dtype with at most 10      *)
(* distinct values.                                                         *)
(***************************************************************************)
TrainedColumn(n) == CHOOSE c \in Range(Val(data)) : c.name = n

C5_ColumnTypes ==
    (req.op = "train" /\ data # None /\ numerical_columns # None) =>
        LET fc == Val(feature_columns)
            num == Val(numerical_columns)
            cat == Val(categorical_columns)
        IN  /\ Range(num) \cap Range(cat) = {}
            /\ Range(num) \cup Range(cat) = Range(fc)
            /\ num = SelectSeqBy(fc, Range(num))
            /\ cat = SelectSeqBy(fc, Range(cat))
            /\ \A n \in Range(fc) :
                  n \in Range(cat) <=>
                     \/ TrainedColumn(n).kind \notin {"int", "float", "bool"}
                     \/ TrainedColumn(n).kind = "int" /\ TrainedColumn(n).nuniq <= 10

\* an integer column of 10 values is categorical, one of 11 and a float of 10
\* are numerical
C5_Witness ==
    /\ req.op = "train" /\ resp.status = 200
    /\ Val(data) = <<Col("Exited", "int", 2), Col("Age", "int", 10), Col("Balance", "float", 10)>>
    /\ Val(categorical_columns) = <<"Age">>
    /\ Val(numerical_columns) = <<"Balance">>

(***************************************************************************)
(* C6.  detect_target_column, as train_model applies it: a non-empty       *)
(* ?target= is the target iff it is a column, else the request fails with  *)
(* no fallback; with none or an empty one the target is the first of       *)
(* Churn, Exited, churn, target that is a column, else the request fails;  *)
(* the target is always a column, and the failure is an HTTP 500.          *)
(***************************************************************************)
C6_TargetColumn ==
    (req.op = "train" /\ data # None /\ resp.kind # "read_csv") =>
        LET names == {Val(data)[i].name : i \in 1..Len(Val(data))}
            t == req.arg
            explicit == IF t = None THEN FALSE ELSE Val(t) # ""
            expected ==
                IF explicit THEN (IF Val(t) \in names THEN Val(t) ELSE "")
                ELSE IF "Churn" \in names THEN "Churn"
                ELSE IF "Exited" \in names THEN "Exited"
                ELSE IF "churn" \in names THEN "churn"
                ELSE IF "target" \in names THEN "target"
                ELSE ""
        IN  IF expected = ""
            THEN resp.status = 500 /\ resp.kind = "target"
            ELSE /\ resp.kind # "target"
                 /\ target_column = Some(expected)
                 /\ expected \in names

\* the convention picked Exited over target, which comes first in the frame
C6_Witness ==
    /\ req.op = "train" /\ req.arg = Some("") /\ resp.status = 200
    /\ Names(Val(data)) = <<"target", "Exited", "RowID">>
    /\ target_column = Some("Exited")

\* an unknown explicit target failed although a conventional column exists
C6_WitnessNoFallback ==
    /\ req.op = "train" /\ req.arg = Some("Nope") /\ resp.status = 500
    /\ "Churn" \in Range(Names(Val(data)))

(***************************************************************************)
(* C7, as claimed.  A restart after successful /train requests restores    *)
(* the globals the last of them left, which the model file holds.          *)
(***************************************************************************)
C7_RestartRestores ==
    [][ (req'.op = "startup" /\ pipeline # None /\ disk = Dumped(Globals))
            => Globals' = Globals ]_vars

(***************************************************************************)
(* C7, amended.  Whenever /train responds with success the model file      *)
(* holds exactly the six globals in memory; a restart whose joblib.load    *)
(* succeeds sets the globals to the ones of the file, so restores them     *)
(* (and the answers of /health, /schema and /model-info) when they were    *)
(* those of the last successful /train; a restart whose load raises        *)
(* leaves every global None.                                                *)
(***************************************************************************)
C7_TrainSavesRestartLoads ==
    [][ /\ (req'.op = "train" /\ resp'.status = 200) => disk' = Dumped(Globals')
        /\ (req'.op = "startup" /\ resp'.kind = "loaded") => disk = Dumped(Globals')
        /\ (req'.op = "startup" /\ resp'.kind # "loaded") => Globals' = NoGlobals
        /\ (req'.op = "startup" /\ resp'.kind = "loaded" /\ disk = Dumped(Globals)) =>
              /\ Globals' = Globals
              /\ HealthBody(Globals') = HealthBody(Globals)
              /\ ModelInfoBody(Globals') = ModelInfoBody(Globals)
              /\ SchemaBody(Globals') = SchemaBody(Globals) ]_vars

\* a process has started from the file of a successful /train
C7_Witness ==
    /\ req.op = "startup" /\ resp.kind = "loaded"
    /\ pipeline # None /\ Val(pipeline).fitted
    /\ categorical_values # None /\ Val(categorical_values) # <<>>
    /\ disk = Dumped(Globals)

(***************************************************************************)
(* C8.  With a model loaded the checks run in the order: feature columns   *)
(* present, numerical columns numeric.  A request with every feature       *)
(* column and a value that is no number in a numerical column is answered  *)
(* 400 naming the first such column of numerical_columns, and the pipeline *)
(* is not called; values that coerce pass the check; a 500 comes only from *)
(* an exception that is no HTTPException.                                   *)
(***************************************************************************)
NonNumberColumns ==
    {c \in Range(Val(numerical_columns)) \cap SentColumns : SentNonNumber(c)}

FirstNonNumberColumn ==
    LET num == Val(numerical_columns)
        i == CHOOSE k \in 1..Len(num) :
                /\ num[k] \in NonNumberColumns
                /\ \A j \in 1..(k - 1) : num[j] \notin NonNumberColumns
    IN  num[i]

C8_MalformedTypes ==
    ((IsPredict \/ IsUpload) /\ Loaded /\ numerical_columns # None) =>
        /\ ~(Range(Val(feature_columns)) \subseteq SentColumns)
              => resp.kind = "missing_columns"
        /\ (SentAllFeatures /\ NonNumberColumns # {}) =>
              /\ resp.status = 400
              /\ resp.kind = "not_numeric"
              /\ resp.cols = {FirstNonNumberColumn}
              /\ call = None
        /\ (SentAllFeatures /\ NonNumberColumns = {}) =>
              /\ resp.kind \in {"prediction", "predictions", "exception"}
              /\ call # None
        /\ resp.status = 500 <=> resp.kind = "exception"
        /\ resp.status = 200 <=> resp.kind \in {"prediction", "predictions"}

\* an upload with every feature column and a word in a numerical column
C8_Witness ==
    /\ IsUpload /\ SentAllFeatures /\ numerical_columns # None
    /\ NonNumberColumns # {}
    /\ resp.status = 400 /\ resp.kind = "not_numeric"

(***************************************************************************)
(* C9.  A /train request that ends with an error response leaves the six   *)
(* globals and the model file as they were.                                 *)
(***************************************************************************)
C9_FailedTrainChangesNothing ==
    [][ (req'.op = "train" /\ resp'.status # 200)
            => (Globals' = Globals /\ disk' = disk) ]_vars

(***************************************************************************)
(* C10.  Whenever pipeline is not None it is fitted, feature_columns is    *)
(* not None, and feature_columns, numerical_columns and                    *)
(* categorical_columns are the ones it was fitted with.                     *)
(***************************************************************************)
C10_SchemaMatchesPipeline ==
    pipeline # None =>
        /\ Val(pipeline).fitted
        /\ feature_columns # None
        /\ Val(pipeline).X = Val(feature_columns)
        /\ numerical_columns = Some(Val(pipeline).num)
        /\ categorical_columns = Some(Val(pipeline).cat)

====
